---- MODULE Spec2Model ----
(***************************************************************************)
(* Model of custom_components/cardata/device_tracker.py: the device        *)
(* tracker of one vehicle (CardataDeviceTracker) and its coordinate        *)
(* reconciliation in _handle_update.                                       *)
(*                                                                         *)
(* Python's Optional[float] is modelled as a sequence of length 0 or 1:    *)
(* None is <<>> and the float x is <<x>>.  A float is an integer count of  *)
(* 1/Scale units, with Scale a power of two large enough that every        *)
(* midpoint the bounded runs compute is exact.  Times are whole seconds    *)
(* of time.monotonic().                                                    *)
(***************************************************************************)
EXTENDS Integers, Sequences, FiniteSets, TLC

\* ------------------------------------------------------------ bounds
\* Number of _handle_update calls of the tracker's own location descriptors
\* that one behaviour explores.
MaxEvents == 3

\* One unit of a modelled float is 1/Scale.  An update averages at most once,
\* so MaxEvents updates never produce a value that is not a whole unit.
Scale == 2 ^ (MaxEvents + 1)

\* Seconds that may pass between two readings of time.monotonic().
Deltas == {0, 3, 4, 180, 181}

\* ------------------------------------------------------------ values
None == <<>>
Some(x) == <<x>>

\* Python objects a coordinator state or a restored attribute may hold.
NoState == [tag |-> "nostate", num |-> 0, str |-> <<>>]
PyNone == [tag |-> "none", num |-> 0, str |-> <<>>]
PyObj == [tag |-> "obj", num |-> 0, str |-> <<>>]
PyNum(n) == [tag |-> "num", num |-> n, str |-> <<>>]
PyStr(s) == [tag |-> "str", num |-> 0, str |-> s]

\* Values the telemetry store may return for a location descriptor.
StoreValues ==
  {NoState, PyNone, PyObj, PyNum(11), PyNum(48),
   PyStr(<<"4", "8">>), PyStr(<<"4", "x">>), PyStr(<<>>)}

\* Attribute values of the last persisted state ("none": attribute missing).
AttrValues == {PyNone, PyObj, PyNum(11), PyNum(48), PyStr(<<"4", "8">>), PyStr(<<"4", "x">>)}

\* The last persisted state: absent, or a pair of attributes.
LastStates ==
  {[present |-> FALSE, latitude |-> PyNone, longitude |-> PyNone]}
  \cup [present : {TRUE}, latitude : AttrValues, longitude : AttrValues]

\* ------------------------------------------------------------ descriptors
LAT_DESCRIPTOR ==
  <<"vehicle", "cabin", "infotainment", "navigation", "currentLocation", "latitude">>
LON_DESCRIPTOR ==
  <<"vehicle", "cabin", "infotainment", "navigation", "currentLocation", "longitude">>
OTHER_DESCRIPTOR ==
  <<"vehicle", "cabin", "infotainment", "navigation", "currentLocation", "heading">>

LOCATION_DESCRIPTORS == {LAT_DESCRIPTOR, LON_DESCRIPTOR}

Descriptors == {LAT_DESCRIPTOR, LON_DESCRIPTOR, OTHER_DESCRIPTOR}

\* The vehicle this tracker was created for, and the vehicles of the entry.
SelfVin == "VIN1"
Vins == {"VIN1", "VIN2"}

\* `word in descriptor` for a word that is one dotted segment.
Contains(descriptor, word) == \E i \in 1..Len(descriptor) : descriptor[i] = word

\* ------------------------------------------------------------ float()
DigitChars == <<"0", "1", "2", "3", "4", "5", "6", "7", "8", "9">>

IsDigit(c) == \E i \in 1..10 : DigitChars[i] = c

DigitVal(c) == (CHOOSE i \in 1..10 : DigitChars[i] = c) - 1

RECURSIVE DecVal(_)
DecVal(s) ==
  IF s = <<>> THEN 0
  ELSE 10 * DecVal(SubSeq(s, 1, Len(s) - 1)) + DigitVal(s[Len(s)])

\* float(v): the float, or the exception raised.
PyFloat(v) ==
  CASE v.tag = "num" -> [exc |-> "", val |-> Some(v.num * Scale)]
    [] v.tag = "str" ->
         IF Len(v.str) > 0 /\ \A i \in 1..Len(v.str) : IsDigit(v.str[i])
         THEN [exc |-> "", val |-> Some(DecVal(v.str) * Scale)]
         ELSE [exc |-> "ValueError", val |-> None]
    [] OTHER -> [exc |-> "TypeError", val |-> None]

\* except (ValueError, TypeError)
CaughtMutant == {"ValueError"}
Caught == {"ValueError", "TypeError"}

\* ------------------------------------------------------------ state
VARIABLES
  pc,              \* "constructed" | "subscribed" | "failed"
  now,             \* last reading of time.monotonic()
  last_lat,        \* _last_lat
  last_lon,        \* _last_lon
  last_lat_time,   \* _last_lat_time
  last_lon_time,   \* _last_lon_time
  restored_lat,    \* _restored_lat: latitude of the reference fix
  restored_lon,    \* _restored_lon: longitude of the reference fix
  before,          \* the tracker's fields when the last step began
  out,             \* what the last step did (refresh signal, log, exception)
  refreshes,       \* calls of schedule_update_ha_state so far
  nEvents          \* _handle_update calls that read the clock

\* async_setup_entry of the device_tracker platform (one config entry).
VARIABLES
  setup_pc,        \* "idle" | "start" | "listening" | "returned"
  known,           \* coordinator.data.keys() when the platform was set up
  trackers,        \* keys of the trackers dict
  created,         \* per vehicle, the CardataDeviceTracker objects constructed
  notice           \* the last notification handle_update received

\* One call of icon_for_descriptor.
VARIABLES
  icon_pc,         \* "idle" | "called" | "returned"
  icon_arg,        \* the descriptor argument
  icon_result      \* the value returned

trackerVars ==
  <<pc, now, last_lat, last_lon, last_lat_time, last_lon_time,
    restored_lat, restored_lon, before, out, refreshes, nEvents>>

setupVars == <<setup_pc, known, trackers, created, notice>>

iconVars == <<icon_pc, icon_arg, icon_result>>

vars == <<trackerVars, setupVars, iconVars>>

\* The vehicles a config entry may report.
EntryVins == {"VIN1", "VIN2", "VIN3"}

NoNotice == [vin |-> "", descriptor |-> <<>>, tracked |-> FALSE, added |-> 0]

\* The number of trackers constructed, over all vehicles.
Sum(c) == c["VIN1"] + c["VIN2"] + c["VIN3"]

\* The platform of this entry is not being set up.
SetupIdle ==
  /\ setup_pc = "idle"
  /\ known = {}
  /\ trackers = {}
  /\ created = [v \in EntryVins |-> 0]
  /\ notice = NoNotice

\* icon_for_descriptor is not being called.
IconIdle ==
  /\ icon_pc = "idle"
  /\ icon_arg = None
  /\ icon_result = None

\* The fields of the tracker, as a record.
Fields ==
  [last_lat |-> last_lat, last_lon |-> last_lon,
   last_lat_time |-> last_lat_time, last_lon_time |-> last_lon_time,
   restored_lat |-> restored_lat, restored_lon |-> restored_lon,
   refreshes |-> refreshes]

\* The observable outcome of a step.
NoOut ==
  [op |-> "init", vin |-> "", descriptor |-> <<>>, handled |-> FALSE, axis |-> "none", value |-> NoState,
   stored |-> FALSE,
   published |-> FALSE, lat |-> None, lon |-> None, reason |-> "",
   ignored |-> FALSE, raised |-> FALSE]

\* __init__
TrackerInit ==
  /\ pc = "constructed"
  /\ now = 0
  /\ last_lat = None
  /\ last_lon = None
  /\ last_lat_time = 0
  /\ last_lon_time = 0
  /\ restored_lat = None
  /\ restored_lon = None
  /\ before = [last_lat |-> None, last_lon |-> None,
               last_lat_time |-> 0, last_lon_time |-> 0,
               restored_lat |-> None, restored_lon |-> None, refreshes |-> 0]
  /\ out = NoOut
  /\ refreshes = 0
  /\ nEvents = 0

\* A tracker just constructed; nothing else is running.
Init == TrackerInit /\ SetupIdle /\ IconIdle


\* ------------------------------------------------------------ restoration
\* async_added_to_hass: seed the reference fix from the last persisted state,
\* then subscribe _handle_update.  float(lat) is assigned before float(lon) is
\* evaluated; a caught exception leaves whatever was assigned so far.
AsyncAddedToHass(state) ==
  /\ pc = "constructed"
  /\ LET both == state.present /\ state.latitude.tag # "none"
                               /\ state.longitude.tag # "none"
         flat == PyFloat(state.latitude)
         flon == PyFloat(state.longitude)
         exc == IF ~both THEN ""
                ELSE IF flat.exc # "" THEN flat.exc
                ELSE flon.exc
     IN /\ restored_lat' = IF both /\ flat.exc = "" THEN flat.val ELSE restored_lat
        /\ restored_lon' = IF both /\ flat.exc = "" /\ flon.exc = "" THEN flon.val
                           ELSE restored_lon
        /\ pc' = IF exc = "" \/ exc \in Caught THEN "subscribed" ELSE "failed"
        /\ out' = [NoOut EXCEPT !.op = "restore",
                                !.raised = ~(exc = "" \/ exc \in Caught)]
  /\ before' = Fields
  /\ UNCHANGED <<now, last_lat, last_lon, last_lat_time, last_lon_time,
                 refreshes, nEvents>>
  /\ UNCHANGED <<setupVars, iconVars>>

\* ------------------------------------------------------------ _fetch_coordinate
\* The float of the store's value, None when it is missing or unparseable;
\* raised: an exception the except clause does not catch.
FetchCoordinateMutant(st) ==
  IF st.tag \notin {"nostate", "none"}
  THEN LET f == PyFloat(st)
       IN [val |-> f.val, raised |-> f.exc # "" /\ f.exc \notin CaughtMutant]
  ELSE [val |-> None, raised |-> FALSE]

FetchCoordinate(st) ==
  IF st.tag \notin {"nostate", "none"}
  THEN LET f == PyFloat(st)
       IN [val |-> f.val, raised |-> f.exc # "" /\ f.exc \notin Caught]
  ELSE [val |-> None, raised |-> FALSE]

\* ------------------------------------------------------------ decision policy
ShortDelay == 3
MaxDelay == 180

Abs(x) == IF x < 0 THEN -x ELSE x

\* (a + b) / 2 on floats
Mid(a, b) ==
  IF a = None \/ b = None THEN None ELSE Some((a[1] + b[1]) \div 2)

\* if lat is None or lon is None: return
SkipUntilBothExistMutant(lat, lon) == lat = None /\ lon = None

SkipUntilBothExist(lat, lon) == lat = None \/ lon = None

\* time_diff <= self._short_delay
RealTimePairMutant(time_diff) == time_diff < ShortDelay

RealTimePair(time_diff) == time_diff <= ShortDelay

\* self._restored_lat is not None and self._restored_lon is not None (delayed pair)
HasReferenceMutant(rlat, rlon) == rlat # None \/ rlon # None

HasReference(rlat, rlon) == rlat # None /\ rlon # None

\* elif self._restored_lat is not None and self._restored_lon is not None
InterpolationGuardMutant(rlat, rlon) == rlat # None

InterpolationGuard(rlat, rlon) == rlat # None /\ rlon # None

\* the elif of the delayed valid pair
DelayedValidPairMutant(time_diff, lat, lon, rlat, rlon) ==
  /\ time_diff <= MaxDelay
  /\ HasReference(rlat, rlon)
  /\ (lat # rlat \/ lon # rlon)

DelayedValidPairNoDiffers(time_diff, lat, lon, rlat, rlon) ==
  /\ time_diff <= MaxDelay
  /\ HasReference(rlat, rlon)

DelayedValidPair(time_diff, lat, lon, rlat, rlon) ==
  /\ time_diff <= MaxDelay
  /\ HasReference(rlat, rlon)
  /\ lat # rlat
  /\ lon # rlon

\* (lat != self._restored_lat) ^ (lon != self._restored_lon)
OnlyOneDiffersMutant(lat, lon, rlat, rlon) == (lat # rlat) /\ (lon # rlon)

OnlyOneDiffers(lat, lon, rlat, rlon) == (lat # rlat) # (lon # rlon)

\* The interpolated fix of the one-axis branch.
InterpolateMutant(lat, lon, lat_time, lon_time, rlat, rlon) ==
  IF lat_time > lon_time
  THEN [lat |-> Mid(lat, rlat), lon |-> lon, reason |-> "interpolated (older lat)"]
  ELSE [lat |-> lat, lon |-> Mid(lon, rlon), reason |-> "interpolated (older lon)"]

InterpolateLess(lat, lon, lat_time, lon_time, rlat, rlon) ==
  IF lat_time < lon_time
  THEN [lat |-> lat, lon |-> Mid(lon, rlon), reason |-> "interpolated (older lon)"]
  ELSE [lat |-> Mid(lat, rlat), lon |-> lon, reason |-> "interpolated (older lat)"]

Interpolate(lat, lon, lat_time, lon_time, rlat, rlon) ==
  IF lat_time > lon_time
  THEN [lat |-> lat, lon |-> Mid(lon, rlon), reason |-> "interpolated (older lon)"]
  ELSE [lat |-> Mid(lat, rlat), lon |-> lon, reason |-> "interpolated (older lat)"]

NoFix == [publish |-> FALSE, lat |-> None, lon |-> None, reason |-> "", ignored |-> FALSE]

Fix(lat, lon, reason) ==
  [publish |-> TRUE, lat |-> lat, lon |-> lon, reason |-> reason, ignored |-> FALSE]

\* The if / elif / elif / else chain of _handle_update, after a sample was stored.
Decide(lat, lon, lat_time, lon_time, rlat, rlon) ==
  LET time_diff == Abs(lat_time - lon_time)
  IN IF SkipUntilBothExist(lat, lon) THEN NoFix
     ELSE IF RealTimePair(time_diff) THEN Fix(lat, lon, "real-time pair")
     ELSE IF DelayedValidPair(time_diff, lat, lon, rlat, rlon)
          THEN Fix(lat, lon, "delayed valid pair")
     ELSE IF InterpolationGuard(rlat, rlon)
          THEN IF OnlyOneDiffers(lat, lon, rlat, rlon)
               THEN LET i == Interpolate(lat, lon, lat_time, lon_time, rlat, rlon)
                    IN Fix(i.lat, i.lon, i.reason)
               ELSE NoFix
     ELSE [NoFix EXCEPT !.ignored = TRUE]

\* _apply_new_coordinates: the reference fix it writes; it also signals a refresh.
ApplyNewCoordinatesMutant(lat, lon) == <<lat, restored_lon>>

ApplyNewCoordinates(lat, lon) == <<lat, lon>>

\* ------------------------------------------------------------ _handle_update
\* not (vin != self.vin or descriptor not in LOCATION_DESCRIPTORS)
RelevantMutant(vin, descriptor) == descriptor \in LOCATION_DESCRIPTORS

Relevant(vin, descriptor) == vin = SelfVin /\ descriptor \in LOCATION_DESCRIPTORS

\* The field of one axis after the fetch: overwritten when the notification
\* is for this axis and a value was fetched, kept otherwise.
LatestMutant(isAxis, updated, new, old) == IF updated THEN new ELSE old

Latest(isAxis, updated, new, old) == IF isAxis /\ updated THEN new ELSE old

\* One notification of the coordinator's update signal: vin and descriptor are
\* the signal's arguments, st is what the store returns for the descriptor and
\* d the seconds since the clock was last read.
HandleUpdate(vin, descriptor, st, d) ==
  /\ pc = "subscribed"
  /\ before' = Fields
  /\ UNCHANGED <<setupVars, iconVars>>
  /\ IF ~Relevant(vin, descriptor)
     THEN /\ out' = [NoOut EXCEPT !.op = "update", !.vin = vin,
                                  !.descriptor = descriptor]
          /\ UNCHANGED <<pc, now, last_lat, last_lon, last_lat_time, last_lon_time,
                         restored_lat, restored_lon, refreshes, nEvents>>
     ELSE /\ nEvents < MaxEvents
          /\ nEvents' = nEvents + 1
          /\ now' = now + d
          /\ UNCHANGED pc
          /\ \E f \in {FetchCoordinate(st)} :
               LET isLat == Contains(descriptor, "latitude")
                   updated == f.val # None /\ ~f.raised
                   lat == Latest(isLat, updated, f.val, last_lat)
                   lon == Latest(~isLat, updated, f.val, last_lon)
                   lat_time == Latest(isLat, updated, now + d, last_lat_time)
                   lon_time == Latest(~isLat, updated, now + d, last_lon_time)
               IN /\ last_lat' = lat
                  /\ last_lon' = lon
                  /\ last_lat_time' = lat_time
                  /\ last_lon_time' = lon_time
                  /\ \E fix \in {IF updated
                                  THEN Decide(lat, lon, lat_time, lon_time,
                                              restored_lat, restored_lon)
                                  ELSE NoFix} :
                       /\ restored_lat' = IF fix.publish
                                          THEN ApplyNewCoordinates(fix.lat, fix.lon)[1]
                                          ELSE restored_lat
                       /\ restored_lon' = IF fix.publish
                                          THEN ApplyNewCoordinates(fix.lat, fix.lon)[2]
                                          ELSE restored_lon
                       /\ refreshes' = IF fix.publish THEN refreshes + 1 ELSE refreshes
                       /\ out' = [op |-> "update", vin |-> vin,
                                  descriptor |-> descriptor, handled |-> TRUE,
                                  axis |-> IF isLat THEN "lat" ELSE "lon",
                                  value |-> st, stored |-> updated, published |-> fix.publish,
                                  lat |-> fix.lat, lon |-> fix.lon,
                                  reason |-> fix.reason, ignored |-> fix.ignored,
                                  raised |-> f.raised]

\* A notification the tracker returns from at once reads neither store nor clock.
StoreFor(vin, descriptor) == IF Relevant(vin, descriptor) THEN StoreValues ELSE {NoState}
\* The clock's origin is arbitrary (the code only compares readings with one
\* another), so the tracker's first reading is taken as time 0.
DeltasFor(vin, descriptor) ==
  IF Relevant(vin, descriptor) /\ nEvents > 0 THEN Deltas ELSE {0}

Next ==
  \/ \E state \in LastStates : AsyncAddedToHass(state)
  \/ \E vin \in Vins, descriptor \in Descriptors :
       \E st \in StoreFor(vin, descriptor), d \in DeltasFor(vin, descriptor) :
         HandleUpdate(vin, descriptor, st, d)

Spec == Init /\ [][Next]_vars

\* ------------------------------------------------------------ sanity
\* Every float of the state is a whole number of units that the remaining
\* updates can still halve exactly.
Halvable(o) == o = None \/ o[1] % (2 ^ (MaxEvents + 1 - nEvents)) = 0

MidpointsExact ==
  /\ Halvable(last_lat) /\ Halvable(last_lon)
  /\ Halvable(restored_lat) /\ Halvable(restored_lon)


\* ------------------------------------------------------------ vocabulary of the claims
\* The last step was an observe event: a notification of one of the tracker's
\* own location descriptors whose value was stored as that axis's sample.
Observed == out.op = "update" /\ out.stored

\* The last step was a notification the tracker did not return from at once.
Notified == out.op = "update" /\ out.handled

BothSamples == last_lat # None /\ last_lon # None

\* |lat.observed_at - lon.observed_at|
Gap ==
  IF last_lat_time >= last_lon_time THEN last_lat_time - last_lon_time
  ELSE last_lon_time - last_lat_time

\* The reference fix as it was before the step, and as it is now.
RefBefore == <<before.restored_lat, before.restored_lon>>
RefNow == <<restored_lat, restored_lon>>
RefExisted == before.restored_lat # None /\ before.restored_lon # None

LatDiffers == last_lat # before.restored_lat
LonDiffers == last_lon # before.restored_lon

\* (a + b) / 2 of two floats
HalfSum(a, b) == <<(a[1] + b[1]) \div 2>>

Interpolated == {"interpolated (older lon)", "interpolated (older lat)"}

\* The value the store returned is missing or no number.
NoNumber(v) ==
  \/ v.tag \in {"nostate", "none", "obj"}
  \/ v.tag = "str" /\ (v.str = <<>> \/ \E i \in 1..Len(v.str) : ~IsDigit(v.str[i]))

\* ------------------------------------------------------------ C1
\* C1: no fix is published (no refresh signal, reference fix not written) in
\* any update step at whose end the latitude or the longitude sample is absent.
C1_NoFixUntilBothAxes ==
  (out.op = "update" /\ ~BothSamples) =>
    /\ ~out.published
    /\ refreshes = before.refreshes
    /\ RefNow = RefBefore

\* A reference fix was restored and one axis has been observed twice, the
\* other never.
C1_Witness ==
  /\ Observed /\ nEvents >= 2
  /\ last_lat # None /\ before.last_lat # None /\ last_lon = None
  /\ RefExisted

\* ------------------------------------------------------------ C2
\* C2: an observe event that leaves both samples present and at most 3 s apart
\* publishes exactly the two latest raw samples, whatever the reference fix
\* was, and the reference fix is that pair afterwards.
C2_RealTimePairPublishesRaw ==
  (Observed /\ BothSamples /\ Gap <= 3) =>
    /\ out.published
    /\ refreshes = before.refreshes + 1
    /\ <<out.lat, out.lon>> = <<last_lat, last_lon>>
    /\ RefNow = <<last_lat, last_lon>>

\* Samples exactly 3 s apart, with a reference fix that differs in both axes.
C2_Witness ==
  /\ Observed /\ BothSamples /\ Gap = 3
  /\ RefExisted /\ LatDiffers /\ LonDiffers
  /\ out.published

\* ------------------------------------------------------------ C3
\* The step (from the unprimed to the primed state) is an observe event that
\* delivers for its axis the value that axis already holds.
SameValueObserved ==
  /\ nEvents' = nEvents + 1
  /\ out'.stored
  /\ IF out'.axis = "lat" THEN last_lat' = last_lat /\ last_lat # None
     ELSE last_lon' = last_lon /\ last_lon # None

\* C3 as stated: once a fix has been accepted, an observe event that repeats
\* the value its axis already holds emits no refresh signal and leaves the
\* reference fix unchanged.
C3_Original ==
  [][(refreshes > 0 /\ SameValueObserved) =>
       (refreshes' = refreshes /\ ~out'.published
        /\ UNCHANGED <<restored_lat, restored_lon>>)]_vars

\* C3 amended: once a fix has been accepted, an observe event that repeats the
\* value its axis already holds, when both held samples equal the reference
\* fix and the two arrival times are then more than 3 s apart, emits no refresh
\* signal and leaves the reference fix unchanged.
C3_RepeatedObservationSilent ==
  (/\ Observed /\ before.refreshes > 0
   /\ (IF out.axis = "lat" THEN last_lat = before.last_lat
       ELSE last_lon = before.last_lon)
   /\ <<last_lat, last_lon>> = RefBefore
   /\ Gap > 3) =>
    /\ ~out.published
    /\ refreshes = before.refreshes
    /\ RefNow = RefBefore

\* A fix was accepted earlier and the repeated value arrives more than 3 s
\* after the other axis's sample.
C3_Witness ==
  /\ Observed /\ before.refreshes > 0
  /\ (IF out.axis = "lat" THEN last_lat = before.last_lat
      ELSE last_lon = before.last_lon)
  /\ BothSamples
  /\ <<last_lat, last_lon>> = RefBefore
  /\ Gap > 3
  /\ ~out.published

\* ------------------------------------------------------------ C4
\* C4: both samples exist more than 3 s apart, a reference fix exists and
\* exactly one held sample differs from it: the step publishes the axis that
\* arrived later unchanged and the other axis as the mean of its sample and
\* its reference value, the reference taken as it was before the step.
C4_InterpolatesOlderAxis ==
  (Observed /\ BothSamples /\ Gap > 3 /\ RefExisted
   /\ (LatDiffers # LonDiffers)) =>
    /\ out.published
    /\ IF last_lat_time > last_lon_time
       THEN /\ out.lat = last_lat
            /\ out.lon = HalfSum(last_lon, before.restored_lon)
       ELSE /\ out.lon = last_lon
            /\ out.lat = HalfSum(last_lat, before.restored_lat)

\* Latitude arrived more than 180 s after a longitude that differs from the
\* reference: the longitude is the one that is averaged.
C4_Witness ==
  /\ Observed /\ BothSamples /\ Gap > 180 /\ RefExisted
  /\ ~LatDiffers /\ LonDiffers
  /\ last_lat_time > last_lon_time
  /\ out.published
  /\ out.lon # last_lon

\* ------------------------------------------------------------ C5
\* C5: a fix is accepted as a delayed valid pair exactly when both samples
\* exist, 3 s < time_diff <= 180 s, a reference fix exists and both samples
\* differ from it; the published fix is then the raw pair.
C5_DelayedValidPairExactly ==
  out.op = "update" =>
    /\ (out.reason = "delayed valid pair") <=>
         (/\ Observed /\ BothSamples
          /\ 3 < Gap /\ Gap <= 180
          /\ RefExisted /\ LatDiffers /\ LonDiffers)
    /\ (out.reason = "delayed valid pair") =>
         (out.published /\ <<out.lat, out.lon>> = <<last_lat, last_lon>>)

\* A delayed valid pair accepted at the edge of the long window.
C5_Witness ==
  /\ out.reason = "delayed valid pair"
  /\ Gap = 180

\* ------------------------------------------------------------ C6
\* C6: in every update step the reference fix is unchanged unless a refresh
\* signal is emitted in that step; a step that emits one leaves the reference
\* fix equal to the published pair; the reference is never cleared.
C6_ReferenceWrittenOnlyByAccept ==
  out.op = "update" =>
    /\ ~out.published => (RefNow = RefBefore /\ refreshes = before.refreshes)
    /\ out.published => (RefNow = <<out.lat, out.lon>>
                         /\ refreshes = before.refreshes + 1)
    /\ before.restored_lat # None => restored_lat # None
    /\ before.restored_lon # None => restored_lon # None

\* An accepted fix that replaces both components of an existing reference.
C6_Witness ==
  /\ out.op = "update" /\ out.published
  /\ RefExisted
  /\ restored_lat # before.restored_lat
  /\ restored_lon # before.restored_lon

\* ------------------------------------------------------------ C7
\* C7 as stated, over two consecutive steps: the unprimed state is the one
\* after latitude was observed (at time now) with a value differing from the
\* reference latitude as it was before that observation; the step observes
\* longitude, more than 3 s and at most 180 s later, with the value of that
\* reference's longitude.  Then the step publishes ((lat + rlat) / 2, rlon).
C7_Original ==
  [][(/\ Observed /\ out.axis = "lat"
      /\ RefExisted /\ LatDiffers
      /\ nEvents' = nEvents + 1
      /\ out'.stored /\ out'.axis = "lon"
      /\ last_lon' = before.restored_lon
      /\ 3 < now' - now /\ now' - now <= 180) =>
       (/\ out'.published
        /\ out'.lat = HalfSum(last_lat, before.restored_lat)
        /\ out'.lon = before.restored_lon)]_vars

\* C7 amended: if the reference fix is (rlat, rlon) when longitude is observed
\* with a value equal to rlon, and the held latitude sample differs from rlat
\* and arrived more than 3 s and at most 180 s earlier, the longitude
\* observation publishes ((lat + rlat) / 2, rlon).
C7_LateUnchangedLongitude ==
  (/\ Observed /\ out.axis = "lon"
   /\ RefExisted
   /\ last_lat # None /\ LatDiffers
   /\ ~LonDiffers
   /\ 3 < last_lon_time - last_lat_time
   /\ last_lon_time - last_lat_time <= 180) =>
    /\ out.published
    /\ out.lat = HalfSum(last_lat, before.restored_lat)
    /\ out.lon = before.restored_lon
    /\ RefNow = <<out.lat, out.lon>>

\* Reference (48, 11), latitude 11 observed, longitude 11 observed later.
C7_Witness ==
  /\ Observed /\ out.axis = "lon"
  /\ RefBefore = <<Some(48 * Scale), Some(11 * Scale)>>
  /\ last_lat = Some(11 * Scale)
  /\ last_lon = Some(11 * Scale)
  /\ 3 < last_lon_time - last_lat_time
  /\ last_lon_time - last_lat_time <= 180
  /\ out.published

\* ------------------------------------------------------------ C8
\* C8: while no reference fix exists, an update step publishes only as a
\* real-time pair or a delayed valid pair, never an interpolated fix.
C8_NoInterpolationWithoutReference ==
  (out.op = "update" /\ ~RefExisted) =>
    /\ out.reason \notin Interpolated
    /\ out.published => out.reason \in {"real-time pair", "delayed valid pair"}

\* Only the latitude of the reference was restored; the samples are more than
\* 3 s apart and the observed latitude equals the restored one.
C8_Witness ==
  /\ Observed /\ BothSamples /\ Gap > 3
  /\ before.restored_lat # None /\ before.restored_lon = None
  /\ ~LatDiffers

\* ------------------------------------------------------------ C9
\* None of the three accepting rules matches the held samples.
NoRuleMatches ==
  /\ Gap > 3
  /\ ~(Gap <= 180 /\ RefExisted /\ LatDiffers /\ LonDiffers)
  /\ ~(RefExisted /\ (LatDiffers # LonDiffers))

\* C9: an observe event that finds both samples present and matches none of
\* the three accepting rules publishes nothing and logs an "ignored" outcome,
\* whether or not a reference fix exists.
C9_IgnoredIsLogged ==
  (Observed /\ BothSamples /\ NoRuleMatches) =>
    (~out.published /\ out.ignored)

\* ------------------------------------------------------------ C10
\* C10: when the value looked up for the notified axis is missing or cannot
\* be converted to a number, both samples and the reference fix are left
\* unchanged, no fix is published and no error is raised.
C10_UnparseableIsNoSample ==
  (Notified /\ NoNumber(out.value)) =>
    /\ ~out.stored
    /\ last_lat = before.last_lat /\ last_lon = before.last_lon
    /\ last_lat_time = before.last_lat_time
    /\ last_lon_time = before.last_lon_time
    /\ RefNow = RefBefore
    /\ ~out.published /\ refreshes = before.refreshes
    /\ ~out.raised

\* A value that is no string and no number arrives for an axis whose sample,
\* had it been stored, would have completed a real-time pair.
C10_Witness ==
  /\ Notified /\ out.value = PyObj
  /\ out.axis = "lon"
  /\ last_lat # None /\ last_lon # None
  /\ now - last_lat_time <= 3
  /\ RefExisted


\* ------------------------------------------------------------ C11
\* C11: a notification whose vehicle is not the tracker's own, or whose
\* descriptor is neither the latitude nor the longitude descriptor, leaves
\* both samples and the reference fix unchanged and publishes nothing.
C11_ForeignNotificationIgnored ==
  (out.op = "update"
   /\ (out.vin # "VIN1" \/ out.descriptor \notin {LAT_DESCRIPTOR, LON_DESCRIPTOR})) =>
    /\ last_lat = before.last_lat /\ last_lon = before.last_lon
    /\ last_lat_time = before.last_lat_time
    /\ last_lon_time = before.last_lon_time
    /\ RefNow = RefBefore
    /\ ~out.published /\ refreshes = before.refreshes

\* Another vehicle's latitude is notified to a tracker that holds a longitude
\* sample and a reference fix.
C11_Witness ==
  /\ out.op = "update"
  /\ out.vin = "VIN2" /\ out.descriptor = LAT_DESCRIPTOR
  /\ last_lat = None /\ last_lon # None
  /\ RefExisted

\* ------------------------------------------------------------ C13
\* C13: a notification with a parseable value for one axis sets that axis's
\* sample to (the value, the clock reading of the step), whether or not the
\* step publishes, and leaves the other axis's value and arrival time alone.
C13_LatestWins ==
  (Notified /\ ~NoNumber(out.value)) =>
    /\ out.stored
    /\ IF out.descriptor = LAT_DESCRIPTOR
       THEN /\ last_lat = PyFloat(out.value).val
            /\ last_lat_time = now
            /\ last_lon = before.last_lon
            /\ last_lon_time = before.last_lon_time
       ELSE /\ last_lon = PyFloat(out.value).val
            /\ last_lon_time = now
            /\ last_lat = before.last_lat
            /\ last_lat_time = before.last_lat_time

\* A new latitude overwrites an older, different one in a step that publishes
\* nothing, while a longitude sample is held.
C13_Witness ==
  /\ Observed /\ out.descriptor = LAT_DESCRIPTOR
  /\ before.last_lat # None /\ last_lat # before.last_lat
  /\ last_lat_time > before.last_lat_time
  /\ last_lon # None
  /\ ~out.published

\* ------------------------------------------------------------ C14
\* C14: an interpolated fix is directed by the strict test lat_time > lon_time:
\* when it holds latitude is published as observed and longitude averaged,
\* otherwise longitude is published as observed and latitude averaged.
C14_DirectionByStrictComparison ==
  (out.op = "update" /\ out.reason \in Interpolated) =>
    IF last_lat_time > last_lon_time
    THEN /\ out.reason = "interpolated (older lon)"
         /\ out.lat = last_lat
         /\ out.lon = HalfSum(last_lon, before.restored_lon)
    ELSE /\ out.reason = "interpolated (older lat)"
         /\ out.lon = last_lon
         /\ out.lat = HalfSum(last_lat, before.restored_lat)

\* The test fails (longitude arrived later) and latitude is the averaged axis.
C14_Witness ==
  /\ out.reason \in Interpolated
  /\ ~(last_lat_time > last_lon_time)
  /\ out.lat # last_lat
  /\ out.lon = last_lon

\* ------------------------------------------------------------ C15
\* C15: in every reachable state the reference fix is wholly absent or wholly
\* present: its latitude is set if and only if its longitude is set.
C15_ReferenceWhole ==
  (restored_lat = None) <=> (restored_lon = None)

\* ------------------------------------------------------------ C16
\* C16: whenever an observe event publishes, the published value of the axis
\* the event carried is the event's own value.
C16_CarriedAxisPublishedRaw ==
  (Observed /\ out.published) =>
    IF out.descriptor = LAT_DESCRIPTOR
    THEN out.lat = PyFloat(out.value).val
    ELSE out.lon = PyFloat(out.value).val

\* An interpolated fix: the carried latitude is published as it arrived and
\* the longitude is replaced by a midpoint.
C16_Witness ==
  /\ Observed /\ out.published
  /\ out.descriptor = LAT_DESCRIPTOR
  /\ out.reason \in Interpolated
  /\ out.lon # last_lon

\* ------------------------------------------------------------ C17
\* C17: while no reference fix exists an observe event publishes if and only
\* if both samples exist and arrived at most 3 s apart, and what it publishes
\* is the raw pair; so the first reference fix of a tracker that restored
\* nothing is never a delayed or an interpolated fix.
C17_FirstFixIsRealTime ==
  (Observed /\ ~RefExisted) =>
    /\ out.published <=> (BothSamples /\ Gap <= 3)
    /\ out.published =>
         (/\ out.reason = "real-time pair"
          /\ RefNow = <<last_lat, last_lon>>)

\* Nothing restored, both samples held 4 to 180 s apart: nothing is published.
C17_Witness ==
  /\ Observed
  /\ before.restored_lat = None /\ before.restored_lon = None
  /\ BothSamples /\ Gap > 3 /\ Gap <= 180
  /\ ~out.published


\* ------------------------------------------------------------ async_setup_entry
\* t is the pair of the trackers dict's keys and the trackers constructed.
ensure_trackerMutant(t, vin) ==
  [trackers |-> t.trackers \cup {vin},
   created |-> [t.created EXCEPT ![vin] = @ + 1]]

\* ensure_tracker: construct and add a tracker unless the vehicle has one.
ensure_tracker(t, vin) ==
  IF vin \in t.trackers THEN t
  ELSE [trackers |-> t.trackers \cup {vin},
        created |-> [t.created EXCEPT ![vin] = @ + 1]]

\* for vin in coordinator.data.keys(): ensure_tracker(vin)
RECURSIVE EnsureAll(_, _)
EnsureAll(t, vins) ==
  IF vins = {} THEN t
  ELSE LET vin == CHOOSE v \in vins : TRUE
       IN EnsureAll(ensure_tracker(t, vin), vins \ {vin})

\* async_setup_entry: return when the entry has no runtime data; otherwise
\* create a tracker per vehicle of coordinator.data and subscribe handle_update.
async_setup_entry(runtime_data, data) ==
  /\ setup_pc = "start"
  /\ IF ~runtime_data
     THEN /\ setup_pc' = "returned"
          /\ UNCHANGED <<known, trackers, created>>
     ELSE /\ setup_pc' = "listening"
          /\ known' = data
          /\ \E t \in {EnsureAll([trackers |-> trackers, created |-> created], data)} :
               /\ trackers' = t.trackers
               /\ created' = t.created
  /\ notice' = NoNotice
  /\ UNCHANGED <<trackerVars, iconVars>>

\* handle_update of async_setup_entry: one notification of the update signal.
handle_update(vin, descriptor) ==
  /\ setup_pc = "listening"
  /\ \E t \in {IF descriptor \in LOCATION_DESCRIPTORS
               THEN ensure_tracker([trackers |-> trackers, created |-> created], vin)
               ELSE [trackers |-> trackers, created |-> created]} :
       /\ trackers' = t.trackers
       /\ created' = t.created
       /\ notice' = [vin |-> vin, descriptor |-> descriptor,
                     tracked |-> vin \in trackers,
                     added |-> Sum(t.created) - Sum(created)]
  /\ UNCHANGED <<setup_pc, known>>
  /\ UNCHANGED <<trackerVars, iconVars>>

SetupInit ==
  /\ TrackerInit /\ IconIdle
  /\ setup_pc = "start"
  /\ known = {}
  /\ trackers = {}
  /\ created = [v \in EntryVins |-> 0]
  /\ notice = NoNotice

SetupNext ==
  \/ \E runtime_data \in BOOLEAN, data \in SUBSET EntryVins :
       async_setup_entry(runtime_data, data)
  \/ \E vin \in EntryVins, descriptor \in Descriptors :
       handle_update(vin, descriptor)

SetupSpec == SetupInit /\ [][SetupNext]_vars

\* ------------------------------------------------------------ C18
\* C18: at most one tracker is created per vehicle identifier; after setup a
\* tracker is created only by a notification that carries a location
\* descriptor, for a vehicle that has none; a notification for a vehicle that
\* is already tracked creates nothing.
C18_OneTrackerPerVehicle ==
  /\ \A v \in EntryVins : created[v] <= 1 /\ (created[v] = 1 <=> v \in trackers)
  /\ notice.added \in {0, 1}
  /\ notice.added = 1 =>
       (/\ notice.descriptor \in {LAT_DESCRIPTOR, LON_DESCRIPTOR}
        /\ ~notice.tracked
        /\ created[notice.vin] = 1)
  /\ notice.tracked => notice.added = 0
  /\ \A v \in trackers \ known : notice.vin # ""

\* A vehicle unknown at setup got its tracker from an earlier notification
\* and is notified again with a location descriptor.
C18_Witness ==
  /\ setup_pc = "listening"
  /\ known # {}
  /\ notice.vin \notin known
  /\ notice.descriptor = LON_DESCRIPTOR
  /\ notice.tracked
  /\ created[notice.vin] = 1


\* ------------------------------------------------------------ descriptor_icons.py
\* A str is the sequence of its characters; Optional[str] wraps it as the
\* floats are wrapped: None is <<>> and the str s is <<s>>.
UpperChars ==
  <<"A", "B", "C", "D", "E", "F", "G", "H", "I", "J", "K", "L", "M",
    "N", "O", "P", "Q", "R", "S", "T", "U", "V", "W", "X", "Y", "Z">>

LowerChars ==
  <<"a", "b", "c", "d", "e", "f", "g", "h", "i", "j", "k", "l", "m",
    "n", "o", "p", "q", "r", "s", "t", "u", "v", "w", "x", "y", "z">>

\* str.lower() on ASCII text
LowerChar(c) ==
  IF \E i \in 1..26 : UpperChars[i] = c
  THEN LowerChars[CHOOSE i \in 1..26 : UpperChars[i] = c]
  ELSE c

Lower(s) == [i \in 1..Len(s) |-> LowerChar(s[i])]

\* needle in s
In(needle, s) ==
  \E i \in 0..(Len(s) - Len(needle)) : SubSeq(s, i + 1, i + Len(needle)) = needle

\* s.endswith(suffix)
EndsWith(s, suffix) ==
  /\ Len(suffix) <= Len(s)
  /\ SubSeq(s, Len(s) - Len(suffix) + 1, Len(s)) = suffix

\* _EXACT_DESCRIPTOR_ICONS, as the set of its items
EXACT_DESCRIPTOR_ICONS ==
  { [key |-> <<"v", "e", "h", "i", "c", "l", "e", ".", "d", "r", "i", "v", "e", "t", "r",
              "a", "i", "n", ".", "e", "l", "e", "c", "t", "r", "i", "c", "E", "n", "g",
              "i", "n", "e", ".", "c", "h", "a", "r", "g", "i", "n", "g", ".", "s", "t",
              "a", "t", "u", "s">>,
     icon |-> "mdi:ev-station"],
    [key |-> <<"v", "e", "h", "i", "c", "l", "e", ".", "d", "r", "i", "v", "e", "t", "r",
              "a", "i", "n", ".", "e", "l", "e", "c", "t", "r", "i", "c", "E", "n", "g",
              "i", "n", "e", ".", "c", "h", "a", "r", "g", "i", "n", "g", ".", "l", "e",
              "v", "e", "l">>,
     icon |-> "mdi:battery-charging-high"],
    [key |-> <<"v", "e", "h", "i", "c", "l", "e", ".", "p", "o", "w", "e", "r", "t", "r",
              "a", "i", "n", ".", "e", "l", "e", "c", "t", "r", "i", "c", ".", "b", "a",
              "t", "t", "e", "r", "y", ".", "s", "t", "a", "t", "e", "O", "f", "C", "h",
              "a", "r", "g", "e", ".", "t", "a", "r", "g", "e", "t">>,
     icon |-> "mdi:battery-charging-high"],
    [key |-> <<"v", "e", "h", "i", "c", "l", "e", ".", "d", "r", "i", "v", "e", "t", "r",
              "a", "i", "n", ".", "e", "l", "e", "c", "t", "r", "i", "c", "E", "n", "g",
              "i", "n", "e", ".", "r", "e", "m", "a", "i", "n", "i", "n", "g", "E", "l",
              "e", "c", "t", "r", "i", "c", "R", "a", "n", "g", "e">>,
     icon |-> "mdi:map-marker-distance"],
    [key |-> <<"v", "e", "h", "i", "c", "l", "e", ".", "d", "r", "i", "v", "e", "t", "r",
              "a", "i", "n", ".", "t", "o", "t", "a", "l", "R", "e", "m", "a", "i", "n",
              "i", "n", "g", "R", "a", "n", "g", "e">>,
     icon |-> "mdi:map-marker-distance"],
    [key |-> <<"v", "e", "h", "i", "c", "l", "e", ".", "d", "r", "i", "v", "e", "t", "r",
              "a", "i", "n", ".", "f", "u", "e", "l", "S", "y", "s", "t", "e", "m", ".",
              "r", "e", "m", "a", "i", "n", "i", "n", "g", "F", "u", "e", "l">>,
     icon |-> "mdi:gas-station"],
    [key |-> <<"v", "e", "h", "i", "c", "l", "e", ".", "d", "r", "i", "v", "e", "t", "r",
              "a", "i", "n", ".", "f", "u", "e", "l", "S", "y", "s", "t", "e", "m", ".",
              "l", "e", "v", "e", "l">>,
     icon |-> "mdi:gas-station"],
    [key |-> <<"v", "e", "h", "i", "c", "l", "e", ".", "v", "e", "h", "i", "c", "l", "e",
              ".", "t", "r", "a", "v", "e", "l", "l", "e", "d", "D", "i", "s", "t", "a",
              "n", "c", "e">>,
     icon |-> "mdi:speedometer"],
    [key |-> <<"v", "e", "h", "i", "c", "l", "e", ".", "v", "e", "h", "i", "c", "l", "e",
              ".", "a", "v", "g", "S", "p", "e", "e", "d">>,
     icon |-> "mdi:speedometer"],
    [key |-> <<"v", "e", "h", "i", "c", "l", "e", ".", "s", "t", "a", "t", "u", "s", ".",
              "c", "o", "n", "d", "i", "t", "i", "o", "n", "B", "a", "s", "e", "d", "S",
              "e", "r", "v", "i", "c", "e", "s">>,
     icon |-> "mdi:wrench"],
    [key |-> <<"v", "e", "h", "i", "c", "l", "e", ".", "s", "t", "a", "t", "u", "s", ".",
              "c", "h", "e", "c", "k", "C", "o", "n", "t", "r", "o", "l", "M", "e", "s",
              "s", "a", "g", "e", "s">>,
     icon |-> "mdi:car-tire-alert"],
    [key |-> <<"v", "e", "h", "i", "c", "l", "e", ".", "v", "e", "h", "i", "c", "l", "e",
              ".", "p", "r", "e", "C", "o", "n", "d", "i", "t", "i", "o", "n", "i", "n",
              "g", ".", "a", "c", "t", "i", "v", "i", "t", "y">>,
     icon |-> "mdi:fan"],
    [key |-> <<"v", "e", "h", "i", "c", "l", "e", ".", "v", "e", "h", "i", "c", "l", "e",
              ".", "p", "r", "e", "C", "o", "n", "d", "i", "t", "i", "o", "n", "i", "n",
              "g", ".", "r", "e", "m", "a", "i", "n", "i", "n", "g", "T", "i", "m", "e">>,
     icon |-> "mdi:clock-outline"],
    [key |-> <<"v", "e", "h", "i", "c", "l", "e", ".", "v", "e", "h", "i", "c", "l", "e",
              ".", "p", "r", "e", "C", "o", "n", "d", "i", "t", "i", "o", "n", "i", "n",
              "g", ".", "e", "r", "r", "o", "r">>,
     icon |-> "mdi:alert-circle-outline"],
    [key |-> <<"v", "e", "h", "i", "c", "l", "e", ".", "v", "e", "h", "i", "c", "l", "e",
              ".", "p", "r", "e", "C", "o", "n", "d", "i", "t", "i", "o", "n", "i", "n",
              "g", ".", "i", "s", "R", "e", "m", "o", "t", "e", "E", "n", "g", "i", "n",
              "e", "R", "u", "n", "n", "i", "n", "g">>,
     icon |-> "mdi:engine"],
    [key |-> <<"v", "e", "h", "i", "c", "l", "e", ".", "v", "e", "h", "i", "c", "l", "e",
              ".", "p", "r", "e", "C", "o", "n", "d", "i", "t", "i", "o", "n", "i", "n",
              "g", ".", "i", "s", "R", "e", "m", "o", "t", "e", "E", "n", "g", "i", "n",
              "e", "S", "t", "a", "r", "t", "A", "l", "l", "o", "w", "e", "d">>,
     icon |-> "mdi:engine"],
    [key |-> <<"v", "e", "h", "i", "c", "l", "e", ".", "v", "e", "h", "i", "c", "l", "e",
              ".", "a", "v", "g", "A", "u", "x", "P", "o", "w", "e", "r">>,
     icon |-> "mdi:flash"],
    [key |-> <<"v", "e", "h", "i", "c", "l", "e", ".", "c", "h", "a", "n", "n", "e", "l",
              ".", "t", "e", "l", "e", "s", "e", "r", "v", "i", "c", "e", ".", "s", "t",
              "a", "t", "u", "s">>,
     icon |-> "mdi:phone"],
    [key |-> <<"v", "e", "h", "i", "c", "l", "e", ".", "b", "o", "d", "y", ".", "c", "h",
              "a", "r", "g", "i", "n", "g", "P", "o", "r", "t", ".", "s", "t", "a", "t",
              "u", "s">>,
     icon |-> "mdi:ev-plug-type2"],
    [key |-> <<"v", "e", "h", "i", "c", "l", "e", ".", "b", "o", "d", "y", ".", "c", "h",
              "a", "r", "g", "i", "n", "g", "P", "o", "r", "t", ".", "l", "o", "c", "k",
              "e", "d", "S", "t", "a", "t", "u", "s">>,
     icon |-> "mdi:lock"],
    [key |-> <<"v", "e", "h", "i", "c", "l", "e", ".", "b", "o", "d", "y", ".", "t", "r",
              "u", "n", "k", ".", "i", "s", "O", "p", "e", "n">>,
     icon |-> "mdi:car-back"],
    [key |-> <<"v", "e", "h", "i", "c", "l", "e", ".", "b", "o", "d", "y", ".", "t", "r",
              "u", "n", "k", ".", "i", "s", "L", "o", "c", "k", "e", "d">>,
     icon |-> "mdi:lock"],
    [key |-> <<"v", "e", "h", "i", "c", "l", "e", ".", "c", "a", "b", "i", "n", ".", "h",
              "v", "a", "c", ".", "p", "r", "e", "c", "o", "n", "d", "i", "t", "i", "o",
              "n", "i", "n", "g", ".", "s", "t", "a", "t", "u", "s", ".", "r", "e", "m",
              "a", "i", "n", "i", "n", "g", "R", "u", "n", "n", "i", "n", "g", "T", "i",
              "m", "e">>,
     icon |-> "mdi:clock-outline"] }

\* The if chain of icon_for_descriptor over the lowercased descriptor.
FallbackIcon(lowered) ==
  IF In(<<"r", "e", "m", "a", "i", "n", "i", "n", "g">>, lowered) /\ In(<<"r", "a", "n", "g", "e">>, lowered)
  THEN Some("mdi:map-marker-distance")
  ELSE
  IF In(<<"f", "u", "e", "l">>, lowered)
  THEN Some("mdi:gas-station")
  ELSE
  IF In(<<"s", "o", "c">>, lowered) \/ In(<<"s", "t", "a", "t", "e", "o", "f", "c", "h", "a", "r", "g", "e">>, lowered)
     \/ EndsWith(lowered, <<".", "h", "v", "s", "o", "c">>)
  THEN (
    IF In(<<"c", "h", "a", "r", "g", "i", "n", "g">>, lowered)
    THEN Some("mdi:battery-charging-high")
    ELSE
    Some("mdi:car-battery")
  )
  ELSE
  IF In(<<"b", "a", "t", "t", "e", "r", "y">>, lowered) /\ In(<<"c", "h", "a", "r", "g", "e">>, lowered)
  THEN Some("mdi:battery-charging-high")
  ELSE
  IF In(<<"b", "a", "t", "t", "e", "r", "y">>, lowered)
  THEN Some("mdi:car-battery")
  ELSE
  IF In(<<"c", "h", "a", "r", "g", "i", "n", "g">>, lowered)
  THEN (
    IF In(<<"a", "m", "p">>, lowered)
    THEN Some("mdi:current-ac")
    ELSE
    IF In(<<"v", "o", "l", "t">>, lowered)
    THEN Some("mdi:current-ac")
    ELSE
    IF In(<<"t", "i", "m", "e">>, lowered)
    THEN Some("mdi:clock-outline")
    ELSE
    IF In(<<"c", "o", "n", "n", "e", "c", "t", "o", "r">>, lowered) \/ In(<<"p", "l", "u", "g">>, lowered)
    THEN Some("mdi:ev-plug-type2")
    ELSE
    Some("mdi:ev-station")
  )
  ELSE
  IF In(<<"p", "o", "w", "e", "r">>, lowered)
  THEN Some("mdi:flash")
  ELSE
  IF In(<<"v", "o", "l", "t", "a", "g", "e">>, lowered)
  THEN Some("mdi:flash")
  ELSE
  IF In(<<"a", "m", "p">>, lowered)
  THEN Some("mdi:current-ac")
  ELSE
  IF In(<<"p", "r", "e", "s", "s", "u", "r", "e">>, lowered)
  THEN Some("mdi:car-tire-alert")
  ELSE
  IF In(<<"t", "e", "m", "p", "e", "r", "a", "t", "u", "r", "e">>, lowered) \/ EndsWith(lowered, <<".", "e", "c", "t">>)
  THEN Some("mdi:thermometer")
  ELSE
  IF In(<<"t", "i", "r", "e">>, lowered)
  THEN Some("mdi:car-tire-alert")
  ELSE
  IF In(<<"h", "v", "a", "c">>, lowered) \/ In(<<"c", "l", "i", "m", "a", "t", "e">>, lowered)
     \/ In(<<"p", "r", "e", "c", "o", "n", "d", "i", "t", "i", "o", "n", "i", "n", "g">>, lowered)
  THEN Some("mdi:fan")
  ELSE
  IF In(<<"s", "e", "a", "t">>, lowered)
  THEN (
    IF In(<<"h", "e", "a", "t", "i", "n", "g">>, lowered)
    THEN Some("mdi:car-seat-heater")
    ELSE
    IF In(<<"c", "o", "o", "l", "i", "n", "g">>, lowered)
    THEN Some("mdi:air-conditioner")
    ELSE
    Some("mdi:car-seat")
  )
  ELSE
  IF In(<<"d", "o", "o", "r">>, lowered) \/ In(<<"w", "i", "n", "d", "o", "w">>, lowered)
  THEN Some("mdi:car-door")
  ELSE
  IF In(<<"s", "u", "n", "r", "o", "o", "f">>, lowered)
  THEN Some("mdi:weather-sunny")
  ELSE
  IF In(<<"t", "r", "u", "n", "k">>, lowered)
  THEN Some("mdi:car-back")
  ELSE
  IF In(<<"h", "o", "o", "d">>, lowered)
  THEN Some("mdi:car")
  ELSE
  IF In(<<"l", "o", "c", "k">>, lowered)
  THEN Some("mdi:lock")
  ELSE
  IF In(<<"e", "n", "g", "i", "n", "e">>, lowered) \/ In(<<"i", "g", "n", "i", "t", "i", "o", "n">>, lowered)
  THEN Some("mdi:engine")
  ELSE
  IF In(<<"n", "a", "v", "i", "g", "a", "t", "i", "o", "n">>, lowered) \/ In(<<"l", "o", "c", "a", "t", "i", "o", "n">>, lowered)
     \/ In(<<"g", "p", "s">>, lowered)
  THEN Some("mdi:map-marker")
  ELSE
  IF In(<<"s", "e", "r", "v", "i", "c", "e">>, lowered)
  THEN Some("mdi:wrench")
  ELSE
  IF In(<<"d", "i", "a", "g", "n", "o", "s", "t", "i", "c">>, lowered) \/ In(<<"f", "a", "u", "l", "t">>, lowered)
  THEN Some("mdi:alert")
  ELSE
  IF In(<<"a", "l", "a", "r", "m">>, lowered)
  THEN Some("mdi:alarm-light")
  ELSE
  IF In(<<"s", "l", "e", "e", "p">>, lowered)
  THEN Some("mdi:power-sleep")
  ELSE
  IF In(<<"t", "i", "m", "e">>, lowered) \/ In(<<"t", "i", "m", "e", "s", "t", "a", "m", "p">>, lowered)
  THEN Some("mdi:clock-outline")
  ELSE
  IF In(<<"s", "p", "e", "e", "d">>, lowered) \/ In(<<"d", "i", "s", "t", "a", "n", "c", "e">>, lowered)
     \/ In(<<"t", "r", "a", "v", "e", "l", "l", "e", "d">>, lowered)
  THEN Some("mdi:speedometer")
  ELSE
  IF In(<<"p", "h", "o", "n", "e">>, lowered) \/ In(<<"t", "e", "l", "e", "s", "e", "r", "v", "i", "c", "e">>, lowered)
  THEN Some("mdi:phone")
  ELSE
  IF In(<<"s", "i", "m">>, lowered)
  THEN Some("mdi:sim")
  ELSE
  None

\* icon_for_descriptor without the lowercasing
icon_for_descriptorMutant(descriptor) ==
  IF descriptor = None \/ descriptor = Some(<<>>) THEN None
  ELSE IF \E e \in EXACT_DESCRIPTOR_ICONS : e.key = descriptor[1]
       THEN Some((CHOOSE e \in EXACT_DESCRIPTOR_ICONS : e.key = descriptor[1]).icon)
  ELSE FallbackIcon(descriptor[1])

\* icon_for_descriptor
icon_for_descriptor(descriptor) ==
  IF descriptor = None \/ descriptor = Some(<<>>) THEN None
  ELSE IF \E e \in EXACT_DESCRIPTOR_ICONS : e.key = descriptor[1]
       THEN Some((CHOOSE e \in EXACT_DESCRIPTOR_ICONS : e.key = descriptor[1]).icon)
  ELSE FallbackIcon(Lower(descriptor[1]))

\* Dotted segments the descriptors of the check are built from.
Segments ==
  { <<"r", "e", "m", "a", "i", "n", "i", "n", "g">>,
    <<"R", "a", "n", "g", "e">>,
    <<"f", "u", "e", "l", "L", "e", "v", "e", "l">>,
    <<"h", "v", "S", "o", "c">>,
    <<"s", "t", "a", "t", "e", "O", "f", "C", "h", "a", "r", "g", "e">>,
    <<"B", "a", "t", "t", "e", "r", "y">>,
    <<"c", "h", "a", "r", "g", "e">>,
    <<"C", "h", "a", "r", "g", "i", "n", "g">>,
    <<"a", "m", "p", "e", "r", "e">>,
    <<"V", "o", "l", "t">>,
    <<"v", "o", "l", "t", "a", "g", "e">>,
    <<"T", "i", "m", "e">>,
    <<"t", "i", "m", "e", "s", "t", "a", "m", "p">>,
    <<"c", "o", "n", "n", "e", "c", "t", "o", "r">>,
    <<"p", "l", "u", "g">>,
    <<"P", "o", "w", "e", "r">>,
    <<"p", "r", "e", "s", "s", "u", "r", "e">>,
    <<"t", "i", "r", "e", "P", "r", "e", "s", "s", "u", "r", "e", "F", "r", "o", "n", "t">>,
    <<"t", "e", "m", "p", "e", "r", "a", "t", "u", "r", "e">>,
    <<"E", "C", "T">>,
    <<"h", "v", "a", "c">>,
    <<"p", "r", "e", "C", "o", "n", "d", "i", "t", "i", "o", "n", "i", "n", "g">>,
    <<"s", "e", "a", "t">>,
    <<"H", "e", "a", "t", "i", "n", "g">>,
    <<"c", "o", "o", "l", "i", "n", "g">>,
    <<"w", "i", "n", "d", "o", "w">>,
    <<"s", "u", "n", "r", "o", "o", "f">>,
    <<"t", "r", "u", "n", "k">>,
    <<"h", "o", "o", "d">>,
    <<"L", "o", "c", "k">>,
    <<"e", "n", "g", "i", "n", "e">>,
    <<"G", "P", "S">>,
    <<"t", "e", "l", "e", "s", "e", "r", "v", "i", "c", "e">>,
    <<"f", "a", "u", "l", "t">>,
    <<"a", "l", "a", "r", "m">>,
    <<"s", "l", "e", "e", "p">>,
    <<"s", "p", "e", "e", "d">>,
    <<"s", "i", "m">>,
    <<"f", "o", "o">>,
    <<"u", "n", "k", "n", "o", "w", "n">>,
    <<"x", "y", "z">> }

\* "vehicle." and "."
VehicleDot == <<"v", "e", "h", "i", "c", "l", "e", ".">>
Dot == <<".">>

\* The arguments of the check: None, the empty str, the keys of the exact
\* table, and vehicle.<a> and vehicle.<a>.<b> for all segments a, b.
IconInputs ==
  {None, Some(<<>>)}
  \cup {Some(e.key) : e \in EXACT_DESCRIPTOR_ICONS}
  \cup {Some(VehicleDot \o a) : a \in Segments}
  \cup {Some(VehicleDot \o a \o Dot \o b) : a \in Segments, b \in Segments}

\* A call of icon_for_descriptor returns.
IconForDescriptor ==
  /\ icon_pc = "called"
  /\ icon_result' = icon_for_descriptor(icon_arg)
  /\ icon_pc' = "returned"
  /\ UNCHANGED <<icon_arg, trackerVars, setupVars>>

IconInit ==
  /\ TrackerInit /\ SetupIdle
  /\ icon_pc = "called"
  /\ icon_arg \in IconInputs
  /\ icon_result = None

IconNext == IconForDescriptor

IconSpec == IconInit /\ [][IconNext]_vars


\* ------------------------------------------------------------ C12
\* The fallback rules as an ordered table.  A rule is a sequence of groups and
\* matches a str when every group holds a test the str passes; a test asks for
\* a substring or for a suffix.
Word(w) == [suffix |-> FALSE, text |-> w]
Suffix(w) == [suffix |-> TRUE, text |-> w]

Passes(t, s) ==
  IF t.suffix
  THEN Len(t.text) <= Len(s) /\ \A i \in 1..Len(t.text) :
         s[Len(s) - Len(t.text) + i] = t.text[i]
  ELSE \E k \in 0..(Len(s) - Len(t.text)) : \A i \in 1..Len(t.text) :
         s[k + i] = t.text[i]

RuleMatches(rule, s) ==
  \A g \in 1..Len(rule.groups) : \E t \in rule.groups[g] : Passes(t, s)

FallbackRules ==
  <<[groups |-> <<{Word(<<"r", "e", "m", "a", "i", "n", "i", "n", "g">>)},
                  {Word(<<"r", "a", "n", "g", "e">>)}>>,
     icon |-> "mdi:map-marker-distance"],
    [groups |-> <<{Word(<<"f", "u", "e", "l">>)}>>,
     icon |-> "mdi:gas-station"],
    [groups |-> <<{Word(<<"s", "o", "c">>), Word(<<"s", "t", "a", "t", "e", "o", "f", "c", "h", "a", "r", "g", "e">>), Suffix(<<".", "h", "v", "s", "o", "c">>)},
                  {Word(<<"c", "h", "a", "r", "g", "i", "n", "g">>)}>>,
     icon |-> "mdi:battery-charging-high"],
    [groups |-> <<{Word(<<"s", "o", "c">>), Word(<<"s", "t", "a", "t", "e", "o", "f", "c", "h", "a", "r", "g", "e">>), Suffix(<<".", "h", "v", "s", "o", "c">>)}>>,
     icon |-> "mdi:car-battery"],
    [groups |-> <<{Word(<<"b", "a", "t", "t", "e", "r", "y">>)},
                  {Word(<<"c", "h", "a", "r", "g", "e">>)}>>,
     icon |-> "mdi:battery-charging-high"],
    [groups |-> <<{Word(<<"b", "a", "t", "t", "e", "r", "y">>)}>>,
     icon |-> "mdi:car-battery"],
    [groups |-> <<{Word(<<"c", "h", "a", "r", "g", "i", "n", "g">>)},
                  {Word(<<"a", "m", "p">>)}>>,
     icon |-> "mdi:current-ac"],
    [groups |-> <<{Word(<<"c", "h", "a", "r", "g", "i", "n", "g">>)},
                  {Word(<<"v", "o", "l", "t">>)}>>,
     icon |-> "mdi:current-ac"],
    [groups |-> <<{Word(<<"c", "h", "a", "r", "g", "i", "n", "g">>)},
                  {Word(<<"t", "i", "m", "e">>)}>>,
     icon |-> "mdi:clock-outline"],
    [groups |-> <<{Word(<<"c", "h", "a", "r", "g", "i", "n", "g">>)},
                  {Word(<<"c", "o", "n", "n", "e", "c", "t", "o", "r">>), Word(<<"p", "l", "u", "g">>)}>>,
     icon |-> "mdi:ev-plug-type2"],
    [groups |-> <<{Word(<<"c", "h", "a", "r", "g", "i", "n", "g">>)}>>,
     icon |-> "mdi:ev-station"],
    [groups |-> <<{Word(<<"p", "o", "w", "e", "r">>)}>>,
     icon |-> "mdi:flash"],
    [groups |-> <<{Word(<<"v", "o", "l", "t", "a", "g", "e">>)}>>,
     icon |-> "mdi:flash"],
    [groups |-> <<{Word(<<"a", "m", "p">>)}>>,
     icon |-> "mdi:current-ac"],
    [groups |-> <<{Word(<<"p", "r", "e", "s", "s", "u", "r", "e">>)}>>,
     icon |-> "mdi:car-tire-alert"],
    [groups |-> <<{Word(<<"t", "e", "m", "p", "e", "r", "a", "t", "u", "r", "e">>), Suffix(<<".", "e", "c", "t">>)}>>,
     icon |-> "mdi:thermometer"],
    [groups |-> <<{Word(<<"t", "i", "r", "e">>)}>>,
     icon |-> "mdi:car-tire-alert"],
    [groups |-> <<{Word(<<"h", "v", "a", "c">>), Word(<<"c", "l", "i", "m", "a", "t", "e">>), Word(<<"p", "r", "e", "c", "o", "n", "d", "i", "t", "i", "o", "n", "i", "n", "g">>)}>>,
     icon |-> "mdi:fan"],
    [groups |-> <<{Word(<<"s", "e", "a", "t">>)},
                  {Word(<<"h", "e", "a", "t", "i", "n", "g">>)}>>,
     icon |-> "mdi:car-seat-heater"],
    [groups |-> <<{Word(<<"s", "e", "a", "t">>)},
                  {Word(<<"c", "o", "o", "l", "i", "n", "g">>)}>>,
     icon |-> "mdi:air-conditioner"],
    [groups |-> <<{Word(<<"s", "e", "a", "t">>)}>>,
     icon |-> "mdi:car-seat"],
    [groups |-> <<{Word(<<"d", "o", "o", "r">>), Word(<<"w", "i", "n", "d", "o", "w">>)}>>,
     icon |-> "mdi:car-door"],
    [groups |-> <<{Word(<<"s", "u", "n", "r", "o", "o", "f">>)}>>,
     icon |-> "mdi:weather-sunny"],
    [groups |-> <<{Word(<<"t", "r", "u", "n", "k">>)}>>,
     icon |-> "mdi:car-back"],
    [groups |-> <<{Word(<<"h", "o", "o", "d">>)}>>,
     icon |-> "mdi:car"],
    [groups |-> <<{Word(<<"l", "o", "c", "k">>)}>>,
     icon |-> "mdi:lock"],
    [groups |-> <<{Word(<<"e", "n", "g", "i", "n", "e">>), Word(<<"i", "g", "n", "i", "t", "i", "o", "n">>)}>>,
     icon |-> "mdi:engine"],
    [groups |-> <<{Word(<<"n", "a", "v", "i", "g", "a", "t", "i", "o", "n">>), Word(<<"l", "o", "c", "a", "t", "i", "o", "n">>), Word(<<"g", "p", "s">>)}>>,
     icon |-> "mdi:map-marker"],
    [groups |-> <<{Word(<<"s", "e", "r", "v", "i", "c", "e">>)}>>,
     icon |-> "mdi:wrench"],
    [groups |-> <<{Word(<<"d", "i", "a", "g", "n", "o", "s", "t", "i", "c">>), Word(<<"f", "a", "u", "l", "t">>)}>>,
     icon |-> "mdi:alert"],
    [groups |-> <<{Word(<<"a", "l", "a", "r", "m">>)}>>,
     icon |-> "mdi:alarm-light"],
    [groups |-> <<{Word(<<"s", "l", "e", "e", "p">>)}>>,
     icon |-> "mdi:power-sleep"],
    [groups |-> <<{Word(<<"t", "i", "m", "e">>), Word(<<"t", "i", "m", "e", "s", "t", "a", "m", "p">>)}>>,
     icon |-> "mdi:clock-outline"],
    [groups |-> <<{Word(<<"s", "p", "e", "e", "d">>), Word(<<"d", "i", "s", "t", "a", "n", "c", "e">>), Word(<<"t", "r", "a", "v", "e", "l", "l", "e", "d">>)}>>,
     icon |-> "mdi:speedometer"],
    [groups |-> <<{Word(<<"p", "h", "o", "n", "e">>), Word(<<"t", "e", "l", "e", "s", "e", "r", "v", "i", "c", "e">>)}>>,
     icon |-> "mdi:phone"],
    [groups |-> <<{Word(<<"s", "i", "m">>)}>>,
     icon |-> "mdi:sim"]>>

\* The icon of the first rule, in table order, that matches s; absence if none.
FirstRuleIcon(s) ==
  LET hits == {i \in 1..Len(FallbackRules) : RuleMatches(FallbackRules[i], s)}
  IN IF hits = {} THEN <<>>
     ELSE <<FallbackRules[CHOOSE i \in hits : \A j \in hits : i <= j].icon>>

\* What the lookup is said to return for an argument.
ExpectedIcon(d) ==
  IF d = <<>> \/ d = <<<<>>>> THEN <<>>
  ELSE IF \E e \in EXACT_DESCRIPTOR_ICONS : e.key = d[1]
       THEN <<(CHOOSE e \in EXACT_DESCRIPTOR_ICONS : e.key = d[1]).icon>>
  ELSE FirstRuleIcon(Lower(d[1]))

ChargingStatus ==
  <<"v", "e", "h", "i", "c", "l", "e", ".", "d", "r", "i", "v", "e", "t", "r", "a", "i", "n", ".",
    "e", "l", "e", "c", "t", "r", "i", "c", "E", "n", "g", "i", "n", "e", ".", "c", "h", "a", "r", "g", "i", "n", "g", ".", "s", "t", "a", "t", "u", "s">>
TirePressureFront == <<"v", "e", "h", "i", "c", "l", "e", ".", "f", "o", "o", ".", "t", "i", "r", "e", "P", "r", "e", "s", "s", "u", "r", "e", "F", "r", "o", "n", "t">>
UnknownXyz == <<"v", "e", "h", "i", "c", "l", "e", ".", "u", "n", "k", "n", "o", "w", "n", ".", "x", "y", "z">>
TeleserviceStatus == <<"v", "e", "h", "i", "c", "l", "e", ".", "c", "h", "a", "n", "n", "e", "l", ".", "t", "e", "l", "e", "s", "e", "r", "v", "i", "c", "e", ".", "s", "t", "a", "t", "u", "s">>

\* C12: icon_for_descriptor returns, for every argument: absence for an absent
\* or empty descriptor; the exact table's icon for a descriptor in the table,
\* also when a fallback rule would give another; otherwise the icon of the
\* first fallback rule in source order that matches the lowercased
\* descriptor; absence when none matches.
C12_IconLookup ==
  icon_pc = "returned" =>
    /\ icon_result = ExpectedIcon(icon_arg)
    /\ icon_arg = <<ChargingStatus>> => icon_result = <<"mdi:ev-station">>
    /\ icon_arg = <<TirePressureFront>> => icon_result = <<"mdi:car-tire-alert">>
    /\ icon_arg = <<UnknownXyz>> => icon_result = <<>>

\* A key of the exact table whose lowercased text the rule of "service" would
\* match first: the table's icon is returned.
C12_Witness ==
  /\ icon_pc = "returned"
  /\ icon_arg = <<TeleserviceStatus>>
  /\ icon_result = <<"mdi:phone">>
  /\ FirstRuleIcon(Lower(icon_arg[1])) = <<"mdi:wrench">>


====
